---- MODULE Spec2Model ----
(***************************************************************************)
(* Model of src/tracer.py: the on-demand system-call tracer.  One control  *)
(* flow (main -> start_tracing -> send_to_cloudwatch ...), the SIGINT      *)
(* handler that can run at any program point, and the external actors      *)
(* (parameter store, log sink, traced subprocess) as nondeterminism.       *)
(***************************************************************************)
EXTENDS Integers, Sequences, FiniteSets, TLC

\* ---------------------------------------------------------------- bounds
MaxLines      == 2   \* lines a subprocess emits before it must reach EOF
MaxEnvWrites  == 1   \* writes of the enable flag by other actors
MaxInterrupts == 1   \* operator interrupts (SIGINT) delivered
NumTokens     == 2   \* distinct sequencing tokens the sink cycles through

\* ------------------------------------------------------- program constants
DEFAULT_COMMAND == "ls -la"

\* ------------------------------------------------------------ python values
PyNone  == "None"
PyTrue  == "True"
PyFalse == "False"
NoToken == 0          \* sequence_token = None; sink tokens are 1..NumTokens
NoProc  == "None"     \* strace_process = None
Handle  == "Popen"    \* strace_process = a Popen object

\* ------------------------------------------------------------ store values
Absent       == "absent"                    \* parameter does not exist
FlagValues   == {"TRUE", "false"}           \* values other actors write
CommandValues == {"echo hi"}

\* Lines the subprocess writes on stderr, as sequences of characters.
Whitespace == {" ", "\n"}
RawLines   == { <<" ", "\n">>, <<" ", "w", "\n">>, <<"r", "\n">> }

\* str.lower() on the values the store can hold
Lower(s) == IF s = "TRUE" THEN "true" ELSE s

RECURSIVE LStrip(_)
LStrip(s) == IF s # <<>> /\ Head(s) \in Whitespace THEN LStrip(Tail(s)) ELSE s

RECURSIVE RStrip(_)
RStrip(s) == IF s # <<>> /\ s[Len(s)] \in Whitespace
               THEN RStrip(SubSeq(s, 1, Len(s) - 1)) ELSE s

\* str.strip()
Strip(s) == RStrip(LStrip(s))

\* python truthiness of the values that occur
Truthy(v) == v \notin {PyNone, PyFalse, ""}

VARIABLES
  pc,                 \* program point of the main control flow
  ssmToggle,          \* store: value of /syscalls/enabled
  ssmCommand,         \* store: value of /syscalls/target_command
  strace_process,     \* global: subprocess handle or None
  sequence_token,     \* global: token for the next put_log_events
  current_log_stream, \* global: name of the session's stream
  last_status,        \* main: flag value of the previous poll
  enabled,            \* main: flag value of this poll
  command,            \* start_tracing argument
  line,               \* start_tracing: line just pulled
  line_count,         \* start_tracing: counter
  procState,          \* subprocess: none / running / finished / terminated / reaped
  tokCounter,         \* sink: last token handed out
  log,                \* sink: append calls received in the current session
  \* ---- history variables (observers, never read by the program)
  sessionNo,          \* sessions started so far
  outcome,            \* how the current/last session went
  sessTok,            \* next-token of the last successful append of the session
  streamCreated,      \* sink: the stream of this session exists
  pulled,             \* lines pulled in this session
  nonEmptyPulled,     \* of which carry a non-whitespace character
  termSignals,        \* terminate() signals sent to the current subprocess
  offLines,           \* line events appended since the flag went not-true
  disablePending,     \* a session ended and its auto-disable write is not issued
  disableIssued,      \* the auto-disable write after the last session was issued
  envWrites,          \* flag writes by other actors
  interrupts,         \* SIGINTs delivered
  intAt,              \* program point of the last SIGINT
  appendedAfterInt,   \* an append call was started after a SIGINT
  pulledRaw,          \* the lines pulled in this session, in order
  flagRead,           \* value the last read of the enable flag returned
  readNow,            \* the flag read true at the last poll
  readPrev,           \* the flag read true at the poll before
  era                 \* who touched the flag last: "session" (read true at
                      \* the poll that started the session), "disabled" (the
                      \* auto-disable write, no poll since), "stuck" (set true
                      \* by another actor right after that write, every poll
                      \* since read true), "stuckMissed" (same, a poll read
                      \* failed since), "other"

vars == << pc, ssmToggle, ssmCommand, strace_process, sequence_token,
           current_log_stream, last_status, enabled, command, line, line_count,
           procState, tokCounter, log,
           sessionNo, outcome, sessTok, streamCreated, pulled, nonEmptyPulled,
           termSignals, offLines, disablePending, disableIssued, envWrites,
           interrupts, intAt, appendedAfterInt, pulledRaw, flagRead,
           readNow, readPrev, era >>

mainVars  == << last_status, enabled >>
storeVars == << ssmToggle, ssmCommand >>
sinkVars  == << tokCounter, log, sequence_token, sessTok,
                appendedAfterInt >>
procVars  == << strace_process, procState, termSignals >>
sessVars  == << command, line, line_count, current_log_stream, streamCreated,
                pulled, nonEmptyPulled, offLines >>
envVars   == << envWrites, interrupts, intAt >>
obsVars   == << pulledRaw, flagRead, readNow, readPrev, era >>

FlagOn == ssmToggle # Absent /\ Lower(ssmToggle) = "true"

\* get_ssm_parameter: the stored value, or None when the call raises
\* (parameter missing, store unreachable)
get_ssm_parameter(stored) ==
  {PyNone} \cup (IF stored = Absent THEN {} ELSE {stored})

\* variant: a failed read counts as enabled
is_tracing_enabled_FailOpen(value) ==
  IF ~Truthy(value) THEN PyTrue
  ELSE IF Lower(value) = "true" THEN PyTrue ELSE PyFalse

\* is_tracing_enabled on the value get_ssm_parameter returned
is_tracing_enabled(value) ==
  IF ~Truthy(value) THEN value
  ELSE IF Lower(value) = "true" THEN PyTrue ELSE PyFalse

\* variant: no fallback
get_target_command_NoDefault(value) == value

\* get_target_command on the value get_ssm_parameter returned
get_target_command(value) == IF Truthy(value) THEN value ELSE DEFAULT_COMMAND

Init ==
  /\ pc = "poll"
  /\ ssmToggle \in FlagValues \cup {Absent}
  /\ ssmCommand \in CommandValues \cup {Absent}
  /\ strace_process = NoProc
  /\ sequence_token = NoToken
  /\ current_log_stream = 0
  /\ last_status = PyFalse
  /\ enabled = PyFalse
  /\ command = DEFAULT_COMMAND
  /\ line = <<>>
  /\ line_count = 0
  /\ procState = "none"
  /\ tokCounter = 0
  /\ log = <<>>
  /\ sessionNo = 0
  /\ outcome = "none"
  /\ sessTok = NoToken
  /\ streamCreated = FALSE
  /\ pulled = 0
  /\ nonEmptyPulled = 0
  /\ termSignals = 0
  /\ offLines = 0
  /\ disablePending = FALSE
  /\ disableIssued = FALSE
  /\ envWrites = 0
  /\ interrupts = 0
  /\ intAt = "none"
  /\ appendedAfterInt = FALSE
  /\ pulledRaw = <<>>
  /\ flagRead = PyNone
  /\ readNow = FALSE
  /\ readPrev = FALSE
  /\ era = "other"


\* ------------------------------------------------------------- log events
Msg(ev, cmd, sc, n) ==
  [event |-> ev, command |-> cmd, syscall |-> sc, total_syscalls |-> n]

StartedMsg   == Msg("trace_started", command, <<>>, 0)

\* variant: the line is sent as read, untrimmed
SyscallMsg_Raw == Msg("syscall", "", line, 0)

SyscallMsg   == Msg("syscall", "", Strip(line), 0)
CompletedMsg == Msg("trace_completed", "", <<>>, line_count)

\* the sequenceToken put on the call: only a truthy stored token is attached
AttachedToken == IF sequence_token # NoToken THEN sequence_token ELSE NoToken

\* one put_log_events call as the sink sees it
Call(message, ok) ==
  [msg |-> message, token |-> AttachedToken, expect |-> sessTok, ok |-> ok]

\* variant: a failed call is repeated once
send_to_cloudwatch_Retry(message, ok, next) ==
  /\ log' = IF ok THEN Append(log, Call(message, ok))
            ELSE Append(Append(log, Call(message, ok)), Call(message, ok))
  /\ appendedAfterInt' = (appendedAfterInt \/ interrupts > 0)
  /\ IF ok
       THEN /\ sequence_token' = next
            /\ sessTok' = next
            /\ tokCounter' = IF next = NoToken THEN tokCounter ELSE next
       ELSE UNCHANGED << sequence_token, sessTok, tokCounter >>

\* send_to_cloudwatch(message): ok = the call returned, next = the
\* nextSequenceToken of the response (None when the response has none)
send_to_cloudwatch(message, ok, next) ==
  /\ log' = Append(log, Call(message, ok))
  /\ appendedAfterInt' = (appendedAfterInt \/ interrupts > 0)
  /\ IF ok
       THEN /\ sequence_token' = next
            /\ sessTok' = next
            /\ tokCounter' = IF next = NoToken THEN tokCounter ELSE next
       ELSE UNCHANGED << sequence_token, sessTok, tokCounter >>

\* the sink never hands out the token it handed out last
NextTokens == {NoToken, (tokCounter % NumTokens) + 1}

\* the subprocess as the program holds it
ProcNow == [h |-> strace_process, st |-> procState, sig |-> termSignals]

SetProc(p) ==
  /\ strace_process' = p.h
  /\ procState' = p.st
  /\ termSignals' = p.sig

\* variant: the handle is not dropped after terminate()
StopTracing_KeepsHandle(p) ==
  IF p.h # NoProc
    THEN [h |-> p.h,
          st |-> CASE p.st = "running"  -> "terminated"
                   [] p.st = "finished" -> "reaped"
                   [] OTHER -> p.st,
          sig |-> IF p.st \in {"running", "terminated"} THEN p.sig + 1
                  ELSE p.sig]
    ELSE p

\* stop_tracing() on the subprocess p: terminate() signals a subprocess that
\* has not exited (Popen.send_signal polls first, so a subprocess that has
\* already finished is reaped and gets no signal) and the handle is dropped
StopTracing(p) ==
  IF p.h # NoProc
    THEN [h |-> NoProc,
          st |-> CASE p.st = "running"  -> "terminated"
                   [] p.st = "finished" -> "reaped"
                   [] OTHER -> p.st,
          sig |-> IF p.st \in {"running", "terminated"} THEN p.sig + 1
                  ELSE p.sig]
    ELSE p

stop_tracing == SetProc(StopTracing(ProcNow))

\* variant: the write is skipped and main goes straight to the sleep
ReturnToMain_NoWrite == "sleep"

\* where start_tracing returns to in main: the auto-disable write
ReturnToMain == "auto_disable"

\* ---------------------------------------------------------------- main loop
\* variant: level-triggered, every poll that reads true starts a session
RisingEdge_Level(en, last) == Truthy(en)

\* line 186: the edge detector
RisingEdge(en, last) == Truthy(en) /\ ~Truthy(last)

\* main, lines 184-186: the flag value read is v; detect the rising edge
PollBody(v) ==
  /\ pc = "poll"
  /\ enabled' = is_tracing_enabled(v)
  /\ pc' = IF RisingEdge(is_tracing_enabled(v), last_status)
             THEN "get_cmd" ELSE "sleep"
  /\ readNow' = (v # PyNone /\ Lower(v) = "true")
  /\ readPrev' = readNow
  /\ era' = IF RisingEdge(is_tracing_enabled(v), last_status) THEN "session"
            ELSE CASE era = "disabled" -> "other"
                   [] era = "stuck" /\ v = PyNone -> "stuckMissed"
                   [] OTHER -> era
  /\ flagRead' = v
  /\ UNCHANGED pulledRaw
  /\ UNCHANGED << last_status, storeVars, sinkVars, sessVars, envWrites,
                  sessionNo, outcome, disablePending, disableIssued >>

Poll ==
  /\ \E v \in get_ssm_parameter(ssmToggle) : PollBody(v)
  /\ UNCHANGED << procVars, interrupts, intAt >>

\* main, lines 187-190 and start_tracing entry: the command value read is v;
\* start_tracing is called
GetCommandBody(v) ==
  /\ pc = "get_cmd"
  /\ command' = get_target_command(v)
  /\ pc' = "create_stream"
  /\ sessionNo' = sessionNo + 1
  /\ outcome' = "starting"
  /\ log' = <<>>
  /\ sessTok' = NoToken
  /\ streamCreated' = FALSE
  /\ pulled' = 0
  /\ nonEmptyPulled' = 0
  /\ offLines' = 0
  /\ disableIssued' = FALSE
  /\ pulledRaw' = <<>>
  /\ UNCHANGED << flagRead, readNow, readPrev, era >>
  /\ UNCHANGED << mainVars, storeVars, envWrites, line, line_count,
                  current_log_stream, tokCounter, sequence_token,
                  appendedAfterInt, disablePending >>

GetCommand ==
  /\ \E v \in get_ssm_parameter(ssmCommand) : GetCommandBody(v)
  /\ UNCHANGED << procVars, interrupts, intAt >>

\* create_log_stream(): the stream is named after the start time; sessions
\* are at least one sleep apart, so the session number stands for the time.
\* created = the stream now exists in the sink, returned = the call returned
\* (the token is reset only then)
CreateLogStreamBody(created, returned) ==
  /\ pc = "create_stream"
  /\ current_log_stream' = sessionNo
  /\ streamCreated' = created
  /\ sequence_token' = IF returned THEN NoToken ELSE sequence_token
  /\ pc' = "send_started"
  /\ UNCHANGED obsVars
  /\ UNCHANGED << mainVars, storeVars, envWrites, command, line,
                  line_count, pulled, nonEmptyPulled, offLines, tokCounter, log,
                  sessTok, appendedAfterInt, sessionNo, outcome, disablePending,
                  disableIssued >>

CreateLogStream ==
  /\ \E r \in BOOLEAN : CreateLogStreamBody(r, r)
  /\ UNCHANGED << procVars, interrupts, intAt >>

\* start_tracing, lines 100-104
SendStarted ==
  /\ pc = "send_started"
  /\ \E ok \in BOOLEAN, next \in NextTokens :
       send_to_cloudwatch(StartedMsg, ok, next)
  /\ pc' = "spawn"
  /\ UNCHANGED << mainVars, storeVars, procVars, sessVars, envVars, sessionNo,
                  outcome, disablePending, disableIssued >>
  /\ UNCHANGED obsVars

\* variant: no finally clause, the handle outlives the session
Return_KeepsHandle ==
  /\ UNCHANGED strace_process
  /\ line' = <<>>
  /\ line_count' = 0
  /\ disablePending' = TRUE
  /\ pc' = ReturnToMain

\* start_tracing, lines 145-146: the finally clause and the return; the
\* locals of start_tracing are gone
Return ==
  /\ strace_process' = NoProc
  /\ line' = <<>>
  /\ line_count' = 0
  /\ disablePending' = TRUE
  /\ pc' = ReturnToMain

\* start_tracing, lines 107-114: Popen succeeds
SpawnOk ==
  /\ pc = "spawn"
  /\ strace_process' = Handle
  /\ procState' = "running"
  /\ termSignals' = 0
  /\ line_count' = 0
  /\ outcome' = "running"
  /\ pc' = "pull"
  /\ UNCHANGED << mainVars, storeVars, sinkVars, envVars, command, line,
                  current_log_stream, streamCreated, pulled, nonEmptyPulled,
                  offLines, sessionNo, disablePending, disableIssued >>
  /\ UNCHANGED obsVars

\* variant: the failure is swallowed around Popen only and the completion
\* event is still sent
SpawnError_StillCompletes ==
  /\ pc = "spawn"
  /\ outcome' = "spawn_failed"
  /\ pc' = "send_completed"
  /\ UNCHANGED << mainVars, storeVars, sinkVars, sessVars, envVars, procVars,
                  sessionNo, disablePending, disableIssued >>
  /\ UNCHANGED obsVars

\* start_tracing, lines 107, 143-146: Popen raises; except, finally, return
SpawnError ==
  /\ pc = "spawn"
  /\ outcome' = "spawn_failed"
  /\ Return
  /\ UNCHANGED << mainVars, storeVars, sinkVars, envVars, procState,
                  termSignals, command, current_log_stream, streamCreated,
                  pulled, nonEmptyPulled, offLines, sessionNo, disableIssued >>
  /\ UNCHANGED obsVars


\* start_tracing, line 115: the next line of stderr, or EOF
Pull ==
  /\ pc = "pull"
  /\ \/ /\ pulled < MaxLines
        /\ \E l \in RawLines :
             /\ line' = l
             /\ pulledRaw' = Append(pulledRaw, l)
             /\ nonEmptyPulled' = IF \E i \in 1..Len(l) : l[i] \notin Whitespace
                                    THEN nonEmptyPulled + 1 ELSE nonEmptyPulled
             /\ pc' = IF Strip(l) # <<>> THEN "send_line" ELSE "check"
        /\ pulled' = pulled + 1
        /\ UNCHANGED << procState, outcome >>
     \/ /\ procState' = "finished"
        /\ outcome' = "eof"
        /\ pc' = "wait"
        /\ UNCHANGED << line, pulled, nonEmptyPulled, pulledRaw >>
  /\ UNCHANGED << mainVars, storeVars, sinkVars, envVars, strace_process,
                  termSignals, command, line_count, current_log_stream,
                  streamCreated, offLines, sessionNo, disablePending,
                  disableIssued >>
  /\ UNCHANGED << flagRead, readNow, readPrev, era >>

\* variant: only delivered lines are counted
NextLineCount_Delivered(n, ok) == IF ok THEN n + 1 ELSE n

\* line 122: the counter after a line event was handed to send_to_cloudwatch
NextLineCount(n, ok) == n + 1

\* start_tracing, lines 116-128: a non-empty line is sent and counted
SendLine ==
  /\ pc = "send_line"
  /\ \E ok \in BOOLEAN, next \in NextTokens :
       /\ send_to_cloudwatch(SyscallMsg, ok, next)
       /\ line_count' = NextLineCount(line_count, ok)
  /\ offLines' = IF FlagOn THEN offLines ELSE offLines + 1
  /\ pc' = "check"
  /\ UNCHANGED << mainVars, storeVars, procVars, envVars, command, line,
                  current_log_stream, streamCreated, pulled, nonEmptyPulled,
                  sessionNo, outcome, disablePending, disableIssued >>
  /\ UNCHANGED obsVars

\* variant: only a flag that reads false cancels, a failed read does not
Cancelled_OnlyFalse(v) == is_tracing_enabled(v) = PyFalse

\* line 130: the cancellation predicate on the flag value read
Cancelled(v) == ~Truthy(is_tracing_enabled(v))

\* start_tracing, lines 130-133: the flag value read is v, the subprocess
\* is p when the read returns
CheckBodyFrom(v, p) ==
  /\ pc = "check"
  /\ flagRead' = v
  /\ IF Cancelled(v)
       THEN /\ SetProc(StopTracing(p))
            /\ outcome' = "cancelled"
            /\ pc' = "wait"
       ELSE /\ SetProc(p)
            /\ UNCHANGED outcome
            /\ pc' = "pull"
  /\ UNCHANGED << pulledRaw, readNow, readPrev, era >>
  /\ UNCHANGED << mainVars, storeVars, sinkVars, sessVars, envWrites,
                  sessionNo, disablePending, disableIssued >>

CheckBody(v) == CheckBodyFrom(v, ProcNow)

Check ==
  /\ \E v \in get_ssm_parameter(ssmToggle) : CheckBody(v)
  /\ UNCHANGED << interrupts, intAt >>

\* start_tracing, line 135: wait() on the handle held
Wait ==
  /\ pc = "wait"
  /\ strace_process # NoProc
  /\ procState' = "reaped"
  /\ pc' = "send_completed"
  /\ UNCHANGED << mainVars, storeVars, sinkVars, sessVars, envVars,
                  strace_process, termSignals, sessionNo, outcome,
                  disablePending, disableIssued >>
  /\ UNCHANGED obsVars

\* start_tracing, lines 135, 143-146: the handle is None, the attribute
\* access raises; except, finally, return
WaitNoHandle ==
  /\ pc = "wait"
  /\ strace_process = NoProc
  /\ Return
  /\ UNCHANGED << mainVars, storeVars, sinkVars, envVars, procState,
                  termSignals, command, current_log_stream, streamCreated,
                  pulled, nonEmptyPulled, offLines, sessionNo, outcome,
                  disableIssued >>
  /\ UNCHANGED obsVars

\* start_tracing, lines 136-146: trace_completed, finally, return
SendCompleted ==
  /\ pc = "send_completed"
  /\ \E ok \in BOOLEAN, next \in NextTokens :
       send_to_cloudwatch(CompletedMsg, ok, next)
  /\ outcome' = IF outcome = "eof" THEN "completed" ELSE outcome
  /\ Return
  /\ UNCHANGED << mainVars, storeVars, envVars, procState,
                  termSignals, command, current_log_stream, streamCreated,
                  pulled, nonEmptyPulled, offLines, sessionNo, disableIssued >>
  /\ UNCHANGED obsVars

\* variant: the flag value of this iteration is taken again after the write
EnabledAfterWrite_Reset(en) == PyFalse

\* lines 193-200: the write leaves the value read at line 184 alone
EnabledAfterWrite(en) == en

\* main, lines 193-198: the auto-disable write; put_parameter is not guarded,
\* so a raise ends the process with a traceback
AutoDisable ==
  /\ pc = "auto_disable"
  /\ disablePending' = FALSE
  /\ disableIssued' = TRUE
  /\ \/ /\ ssmToggle' = "false"
        /\ pc' = "sleep"
        \* the session is over: its history is dropped
        /\ log' = <<>>
        /\ sessTok' = NoToken
        /\ streamCreated' = FALSE
        /\ pulled' = 0
        /\ nonEmptyPulled' = 0
        /\ offLines' = 0
        /\ outcome' = "none"
        /\ pulledRaw' = <<>>
        /\ era' = "disabled"
        /\ enabled' = EnabledAfterWrite(enabled)
     \/ /\ pc' = "crashed"
        /\ UNCHANGED << ssmToggle, log, sessTok, streamCreated, pulled,
                        nonEmptyPulled, offLines, outcome, pulledRaw,
                        era, enabled >>
  /\ UNCHANGED << last_status, flagRead, readNow, readPrev,
                  ssmCommand, procVars, envVars, sessionNo,
                  command, line, line_count, current_log_stream,
                  tokCounter, sequence_token, appendedAfterInt >>

\* main, lines 200-201
Sleep ==
  /\ pc = "sleep"
  /\ last_status' = enabled
  /\ pc' = "poll"
  /\ UNCHANGED << enabled, storeVars, sinkVars, procVars, sessVars, envVars,
                  sessionNo, outcome, disablePending, disableIssued >>
  /\ UNCHANGED obsVars

Live == pc \notin {"exited", "crashed"}

\* another actor writes or deletes the enable flag
EnvSetFlag ==
  /\ Live
  /\ envWrites < MaxEnvWrites
  /\ \E v \in (FlagValues \cup {Absent}) \ {ssmToggle} :
       /\ ssmToggle' = v
       /\ offLines' = IF v # Absent /\ Lower(v) = "true" THEN 0 ELSE offLines
       /\ era' = IF v # Absent /\ Lower(v) = "true" /\ era = "disabled"
                   THEN "stuck" ELSE "other"
  /\ envWrites' = envWrites + 1
  /\ UNCHANGED << pc, mainVars, ssmCommand, sinkVars, procVars, command, line,
                  line_count, current_log_stream, streamCreated, pulled,
                  nonEmptyPulled, interrupts, intAt, sessionNo, outcome,
                  disablePending, disableIssued >>
  /\ UNCHANGED << pulledRaw, flagRead, readNow, readPrev >>


\* -------------------------------------------------------------- SIGINT
\* signal_handler is entered at the interrupted program point; its call of
\* stop_tracing() is applied by the actions below, then SystemExit is raised
signal_handler ==
  /\ Live
  /\ interrupts < MaxInterrupts
  /\ interrupts' = interrupts + 1
  /\ intAt' = pc

\* variant: the handler clears the enable flag before it exits
HandlerFlag_Cleared(f) == "false"

\* lines 154-157: the handler makes no write to the store
HandlerFlag(f) == f

SendPcs == {"send_started", "send_line", "send_completed"}

InFlightMsg == CASE pc = "send_started"   -> StartedMsg
                 [] pc = "send_line"      -> SyscallMsg
                 [] pc = "send_completed" -> CompletedMsg
                 [] OTHER                 -> StartedMsg

\* SIGINT where no bare except encloses the interrupted point: SystemExit
\* passes the "except Exception" clauses and the finally, the process exits.
\* An append in progress may or may not have reached the sink.
SigintExit ==
  /\ signal_handler
  /\ stop_tracing
  /\ ssmToggle' = HandlerFlag(ssmToggle)
  /\ pc' = "exited"
  /\ IF pc \in SendPcs
       THEN \E arrived \in BOOLEAN :
              log' = IF arrived THEN Append(log, Call(InFlightMsg, TRUE)) ELSE log
       ELSE UNCHANGED log
  /\ UNCHANGED << mainVars, ssmCommand, sessVars, envWrites,
                  tokCounter, sequence_token, sessTok, appendedAfterInt,
                  sessionNo, outcome, disablePending, disableIssued >>
  /\ UNCHANGED obsVars

\* SIGINT while the get_parameter call of get_ssm_parameter is in progress:
\* the bare except of line 66 catches SystemExit and None is returned
SigintSwallowedRead ==
  /\ signal_handler
  /\ \/ PollBody(PyNone) /\ stop_tracing
     \/ GetCommandBody(PyNone) /\ stop_tracing
     \/ CheckBodyFrom(PyNone, StopTracing(ProcNow))

\* SIGINT while the create_log_stream call is in progress: the bare except
\* of line 59 catches SystemExit, the token is not reset
SigintSwallowedCreate ==
  /\ signal_handler
  /\ stop_tracing
  /\ \E created \in BOOLEAN : CreateLogStreamBody(created, FALSE)

Next ==
  \/ Poll
  \/ GetCommand
  \/ CreateLogStream
  \/ SendStarted
  \/ SpawnOk
  \/ SpawnError
  \/ Pull
  \/ SendLine
  \/ Check
  \/ Wait
  \/ WaitNoHandle
  \/ SendCompleted
  \/ AutoDisable
  \/ Sleep
  \/ EnvSetFlag
  \/ SigintExit
  \/ SigintSwallowedRead
  \/ SigintSwallowedCreate

Spec == Init /\ [][Next]_vars

TypeOK ==
  /\ pc \in {"poll", "get_cmd", "create_stream", "send_started", "spawn",
             "pull", "send_line", "check", "wait", "send_completed",
             "auto_disable", "sleep", "exited", "crashed"}
  /\ strace_process \in {NoProc, Handle}
  /\ sequence_token \in Nat
  /\ line_count \in Nat
  /\ last_status \in {PyNone, PyTrue, PyFalse}
  /\ enabled \in {PyNone, PyTrue, PyFalse}


\* ------------------------------------------------------------ properties
SessionPcs == {"create_stream", "send_started", "spawn", "pull", "send_line",
               "check", "wait", "send_completed"}
RunningPcs == {"pull", "send_line", "check"}

Events(ev) == { i \in 1..Len(log) : log[i].msg.event = ev }

\* C1: a session cancelled by the flag check has, when control is back in
\* main, waited for the subprocess and appended exactly one trace_completed
\* event, the last one, carrying the number of lines counted.
C1_CancelFinishesLikeEof ==
  (pc = "auto_disable" /\ outcome = "cancelled" /\ interrupts = 0) =>
     /\ procState = "reaped"
     /\ Cardinality(Events("trace_completed")) = 1
     /\ log[Len(log)].msg.event = "trace_completed"
     /\ log[Len(log)].msg.total_syscalls = Cardinality(Events("syscall"))

\* C2: after a SIGINT delivered while the session is RUNNING the process has
\* exited and no append call was started after the interrupt.
C2_InterruptExits ==
  (interrupts > 0 /\ intAt \in RunningPcs) =>
     (pc = "exited" /\ ~appendedAfterInt)

\* C3: the first append of every session (trace_started) carries no
\* sequencing token.
C3_SessionStartsWithoutToken ==
  \A i \in Events("trace_started") : log[i].token = NoToken

\* C4: every append call carries the next-token of the most recent
\* successful append of its session (none if there was none), and a failed
\* append leaves the token for the next call unchanged.
C4_TokenChain ==
  /\ \A i \in 1..Len(log) : log[i].token = log[i].expect
  /\ \A i \in 1..(Len(log) - 1) : ~log[i].ok => log[i + 1].token = log[i].token

\* C5: without an operator interrupt the poll loop is never left: the
\* process never dies of a failed collaborator call.
C5_PollLoopSurvives == interrupts = 0 => pc # "crashed"

\* C6: no session is in progress while the auto-disable write for the
\* previous session has not been issued.
C6_DisableBeforeNextSession == pc \in SessionPcs => ~disablePending

C6_Witness ==
  /\ sessionNo >= 2
  /\ pc = "create_stream"
  /\ ~disablePending
  /\ interrupts = 0

\* C7: the flag is checked only after the pulled line is fully processed
\* (appended and counted), and while the flag stays not-true at most one
\* line event is appended before the subprocess is terminated.
C7_CancelAfterAtMostOneLine ==
  /\ offLines <= 1
  /\ (pc = "check" /\ Strip(line) # <<>>) =>
        /\ Len(log) > 0
        /\ log[Len(log)].msg = SyscallMsg
        /\ line_count = Cardinality(Events("syscall"))
  /\ (outcome = "cancelled" /\ interrupts = 0 /\ pc = "wait") =>
        (procState = "terminated" /\ termSignals = 1)

C7_Witness ==
  /\ offLines = 1
  /\ outcome = "cancelled"
  /\ procState = "terminated"
  /\ interrupts = 0
  /\ pc = "wait"

\* C8 as stated: a session whose spawn failed has created no stream and
\* appended no event.
C8_NoStreamOnSpawnError ==
  outcome = "spawn_failed" => (~streamCreated /\ log = <<>>)

\* C8 as amended: a session whose spawn failed has opened its stream and
\* attempted the trace_started append before the spawn, and nothing else.
C8_SpawnErrorAfterStarted ==
  outcome = "spawn_failed" =>
     /\ current_log_stream = sessionNo
     /\ Len(log) = 1
     /\ log[1].msg = StartedMsg

C8_Witness ==
  /\ outcome = "spawn_failed"
  /\ streamCreated
  /\ Len(log) = 1
  /\ log[1].ok
  /\ pc = "auto_disable"

\* C9: a session whose spawn failed appends nothing after trace_started and
\* the controller, unless interrupted, goes on to its next poll: the process
\* does not die.
C9_SpawnErrorBackToPoll ==
  (outcome = "spawn_failed" /\ interrupts = 0) =>
     /\ Events("syscall") = {} /\ Events("trace_completed") = {}
     /\ pc # "crashed"

\* C10: a trace_completed event carries the number of lines pulled in the
\* session that have a non-whitespace character.
C10_TotalIsNonEmptyPulled ==
  \A i \in Events("trace_completed") :
     log[i].msg.total_syscalls = nonEmptyPulled

C10_Witness ==
  /\ Events("trace_completed") # {}
  /\ \E i \in Events("syscall") : ~log[i].ok
  /\ nonEmptyPulled >= 1
  /\ pulled > nonEmptyPulled


\* the non-blank lines pulled so far, in the order the subprocess wrote them
NonBlank(l) == \E i \in 1..Len(l) : l[i] \notin Whitespace
ExpectedLines == SelectSeq(pulledRaw, NonBlank)

C12_RisingEdgeStartsSession ==
  [][ /\ (pc = "poll" /\ pc' \in {"get_cmd", "sleep"}) =>
           ((pc' = "get_cmd") <=> (readNow' /\ ~readPrev'))
      /\ (pc' = "get_cmd" /\ pc # "get_cmd") => pc = "poll"
      /\ sessionNo' # sessionNo =>
           (pc = "get_cmd" /\ sessionNo' = sessionNo + 1) ]_vars

C12_Witness ==
  /\ pc = "sleep"
  /\ readNow
  /\ readPrev
  /\ sessionNo = 1
  /\ interrupts = 0

\* C13: outside the loop of a session no subprocess handle is held and no
\* subprocess is running; in particular none when a session is about to spawn.
C13_SingleSession ==
  pc \notin (RunningPcs \cup {"wait", "send_completed"}) =>
     (strace_process = NoProc /\ procState # "running")

C13_Witness ==
  /\ sessionNo = 2
  /\ pc = "spawn"
  /\ procState \in {"terminated", "reaped"}
  /\ strace_process = NoProc

\* C14: every non-blank pulled line gets exactly one append attempt, right
\* after the attempts before it, whether or not earlier attempts failed.
C14_FailedAppendNotRetried ==
  (outcome \in {"running", "eof", "cancelled", "completed"} /\ pc # "exited") =>
     LET n == Cardinality(Events("syscall")) IN
       /\ n = Len(ExpectedLines) - (IF pc = "send_line" THEN 1 ELSE 0)
       /\ Events("trace_started") = {1}
       /\ Events("syscall") = 2..(n + 1)
       /\ Cardinality(Events("trace_completed")) <= 1

C14_Witness ==
  /\ \E i \in Events("syscall") :
       /\ ~log[i].ok
       /\ \E j \in Events("syscall") : j > i
  /\ ~log[1].ok
  /\ outcome = "completed"

\* C15: a poll whose flag read returns nothing (failed read, absent
\* parameter) starts no session and writes nothing to the store, and the
\* sleep leads to the next poll.
C15_FailedReadIsDisabled ==
  [][ /\ (pc = "poll" /\ pc' \in {"get_cmd", "sleep"} /\ flagRead' = PyNone) =>
           /\ pc' = "sleep"
           /\ ssmToggle' = ssmToggle
           /\ ssmCommand' = ssmCommand
           /\ sessionNo' = sessionNo
      /\ pc = "sleep" => pc' \in {"sleep", "poll", "exited"} ]_vars

C15_Witness ==
  /\ pc = "poll"
  /\ flagRead = PyNone
  /\ last_status = PyNone
  /\ ssmToggle = Absent
  /\ sessionNo = 0
  /\ interrupts = 0

\* C16: a session whose command could not be read runs with the default
\* command, which is the one its trace_started event carries, and its return
\* leads to the auto-disable write.
C16_DefaultCommand ==
  (pc \in SessionPcs \cup {"auto_disable"}) =>
     /\ command \in CommandValues \cup {DEFAULT_COMMAND}
     /\ ssmCommand = Absent => command = DEFAULT_COMMAND
     /\ command # ssmCommand => command = DEFAULT_COMMAND
     /\ log # <<>> => log[1].msg.command = command
     /\ pc = "auto_disable" => disablePending

C16_Witness ==
  /\ pc = "auto_disable"
  /\ outcome = "completed"
  /\ command = DEFAULT_COMMAND
  /\ ssmCommand # Absent
  /\ log[1].msg.command = DEFAULT_COMMAND

\* C17: stop_tracing() applied twice is stop_tracing() applied once, it is
\* the identity when no handle is held, and no subprocess is signalled twice.
C17_StopTracingIdempotent ==
  /\ termSignals <= 1
  /\ StopTracing(StopTracing(ProcNow)) = StopTracing(ProcNow)
  /\ strace_process = NoProc => StopTracing(ProcNow) = ProcNow

C17_Witness ==
  /\ pc = "exited"
  /\ intAt = "wait"
  /\ outcome = "cancelled"
  /\ termSignals = 1
  /\ procState = "terminated"

\* C18 as stated: once another actor has set the flag true right after the
\* auto-disable write, no session starts as long as the flag stays true.
C18_NoSessionWhileFlagStaysTrue ==
  [][ (era \in {"stuck", "stuckMissed"} /\ interrupts = 0) =>
         (pc' # "get_cmd") ]_vars

\* C18 as amended: ... as long as the flag stays true and every poll since
\* has read it; the controller sits in its poll loop with previous_enabled
\* true.
C18_NoSessionWhileFlagReadsTrue ==
  era = "stuck" =>
     /\ pc \in {"sleep", "poll", "exited"}
     /\ FlagOn
     /\ pc = "poll" => Truthy(last_status)
     /\ enabled = PyTrue

C18_Witness ==
  /\ era = "stuck"
  /\ pc = "poll"
  /\ readNow
  /\ readPrev
  /\ FlagOn
  /\ sessionNo = 1

\* C19: a flag read that returns nothing inside a running session cancels
\* it: the subprocess is terminated and the handle dropped.
C19_FailedReadCancels ==
  (flagRead = PyNone /\ outcome \in {"running", "eof", "cancelled", "completed"}) =>
     /\ outcome = "cancelled"
     /\ strace_process = NoProc
     /\ procState = "terminated"

C19_Witness ==
  /\ flagRead = PyNone
  /\ outcome = "cancelled"
  /\ procState = "terminated"
  /\ FlagOn
  /\ envWrites = 0
  /\ interrupts = 0
  /\ pulled >= 1

\* C20: when the process has exited on an interrupt received inside a
\* session, no auto-disable write was issued for that session, and the flag
\* is still true unless another actor wrote it.
C20_InterruptLeavesFlag ==
  (pc = "exited" /\ intAt \in SessionPcs) =>
     /\ ~disableIssued
     /\ era = "session" => FlagOn

C20_Witness ==
  /\ pc = "exited"
  /\ intAt = "pull"
  /\ era = "session"
  /\ FlagOn
  /\ ~disableIssued

====
